---- MODULE Spec2Model ----
(***************************************************************************)
(* Model of src/src/dictionary.py: the educational Dictionary with a       *)
(* small ("stack") table, a promoted ("heap") table, tombstones (DUMMY)    *)
(* and a two-thirds growth policy.                                         *)
(*                                                                         *)
(* Python object semantics that the code relies on are modelled as they    *)
(* are: DictEntry objects live in a heap and lists hold references to      *)
(* them; _small_table and _table are mutable CLASS attributes, so an       *)
(* instance that never assigned its own list reads and mutates the list    *)
(* of the class; _used and _fill are rebound per instance by += and *=.    *)
(***************************************************************************)
EXTENDS Integers, Sequences, FiniteSets, TLC

VARIABLES
    heap,              \* DictEntry objects: id -> [hash, key, value]
    cls_small_table,   \* Dictionary._small_table (class attribute, line 42)
    cls_table,         \* Dictionary._table (class attribute, line 45)
    inst_small_table,  \* per instance: its own _small_table attribute, if bound
    inst_table,        \* per instance: its own _table attribute, if bound
    used,              \* per instance: _used
    fill,              \* per instance: _fill
    created,           \* the Dictionary instances constructed so far
    limit,             \* how many instances this run may construct
    calls,             \* calls made so far, where a specification bounds them
    ret                \* the last call made and what it returned or raised

vars == <<heap, cls_small_table, cls_table, inst_small_table, inst_table,
          used, fill, created, limit, calls, ret>>

----------------------------------------------------------------------------
(* Bounds of the model *)

\* Spec explores deletions while _used stays above -MaxDebt.
MaxDebt == 2
\* Number of Dictionary instances a run of SpecShared may construct.
NumContainers == 3
\* SpecShared explores insertions while _used stays below MaxUsed and
\* deletions while _used stays above -SharedDebt.
MaxUsed == 6
SharedDebt == 11
\* Number of calls in a run of SpecSolo.
MaxCalls == 12

\* Ids the model reserves for the objects of one list owner.
IdStride == 100
ClassOwner == 0

(* Program constants *)
InitialUsed == 0
InitialFill == 8
SmallTableLimit == 8
GrowthFactor == 2

----------------------------------------------------------------------------
(* Python values: a tagged record, so that None, ints and strs compare.   *)

PyNone == [t |-> "none", i |-> 0, s |-> ""]
PyInt(n) == [t |-> "int", i |-> n, s |-> ""]
PyStr(x) == [t |-> "str", i |-> 0, s |-> x]

\* Truth value of an object as tested by `if default:` (line 89).
Truthy(v) ==
    CASE v.t = "none" -> FALSE
      [] v.t = "int" -> v.i # 0
      [] v.t = "str" -> v.s # ""

\* hash() of a str: CPython derives it from a per-process random seed, so
\* different strings have different hashes (and hash("") is 0).  The program
\* only ever compares hashes for equality: each string a run can use gets a
\* value of its own, outside the range of the integer keys used here.
StrHash(x) ==
    CASE x = ""         -> 0
      [] x = "Dummy123" -> 1000001
      [] x = "Cod"      -> 1000002
      [] x = "Beef"     -> 1000003
      [] x = "Chips"    -> 1000005
      [] x = "Sausage"  -> 1000006
      [] x = "Turkey"   -> 1000007
      [] x = "Duck"     -> 1000008
      [] x = "Lamb"     -> 1000009

\* hash() as DictEntry.__init__ and the scans call it (lines 21, 87, 104, 127).
\* CPython: hash(n) = n for small ints, except hash(-1) = -2.
PyHash(k) ==
    CASE k.t = "int" -> (IF k.i = -1 THEN -2 ELSE k.i)
      [] k.t = "str" -> StrHash(k.s)
      [] k.t = "none" -> 1000004

\* DictEntry(key, value)
DictEntry(key, value) == [hash |-> PyHash(key), key |-> key, value |-> value]

\* The module-level DUMMY object: id 0 in the heap.
DUMMY == 0
DummyEntry == DictEntry(PyStr("Dummy123"), PyStr("Nothing"))

----------------------------------------------------------------------------
(* Inputs *)

Containers == 1..NumContainers
Keys == {PyStr("Dummy123"), PyInt(1), PyInt(-1), PyInt(-2)}
Values == {PyStr("Tartar"), PyStr("Brown")}
Defaults == {PyNone, PyStr(""), PyStr("Ketchup")}

\* An instance attribute that was never assigned: lookup falls to the class.
NoAttr == [own |-> FALSE, items |-> <<>>]
OwnList(s) == [own |-> TRUE, items |-> s]

----------------------------------------------------------------------------
(* The mutable program state as one record, so that the methods compose.   *)

Cur == [heap |-> heap, cs |-> cls_small_table, ct |-> cls_table,
        is |-> inst_small_table, it |-> inst_table,
        used |-> used, fill |-> fill]

\* self._small_table: the instance attribute if bound, else the class one.
small_table_of(S, c) == IF S.is[c].own THEN S.is[c].items ELSE S.cs

\* self._table
heap_table_of(S, c) == IF S.it[c].own THEN S.it[c].items ELSE S.ct

\* The `table` property: the small table while _fill <= 8.
UsesSmallIn(S, c) == S.fill[c] <= SmallTableLimit
table_of(S, c) ==
    IF UsesSmallIn(S, c) THEN small_table_of(S, c) ELSE heap_table_of(S, c)

\* In-place mutation of the list object self._small_table refers to.
WriteSmall(S, c, L) ==
    IF S.is[c].own THEN [S EXCEPT !.is[c] = OwnList(L)] ELSE [S EXCEPT !.cs = L]

\* In-place mutation of the list object self._table refers to.
WriteHeap(S, c, L) ==
    IF S.it[c].own THEN [S EXCEPT !.it[c] = OwnList(L)] ELSE [S EXCEPT !.ct = L]

\* In-place mutation of the list object the `table` property returns.
WriteTable(S, c, L) ==
    IF UsesSmallIn(S, c) THEN WriteSmall(S, c, L) ELSE WriteHeap(S, c, L)

\* Index of the first slot of L whose entry has hash h (0: no such slot).
FirstMatch(S, L, h) ==
    IF \E i \in 1..Len(L) : S.heap[L[i]].hash = h
    THEN CHOOSE i \in 1..Len(L) :
            /\ S.heap[L[i]].hash = h
            /\ \A j \in 1..(i - 1) : S.heap[L[j]].hash # h
    ELSE 0

\* Index of the first slot of L that holds the DUMMY object itself
\* (`entry == DUMMY` is identity: DictEntry defines no __eq__).
FirstDummy(L) ==
    IF \E i \in 1..Len(L) : L[i] = DUMMY
    THEN CHOOSE i \in 1..Len(L) :
            /\ L[i] = DUMMY
            /\ \A j \in 1..(i - 1) : L[j] # DUMMY
    ELSE 0

\* Ids of the objects some list refers to.
SeqRange(L) == {L[i] : i \in 1..Len(L)}
Referenced(S) ==
    SeqRange(S.cs) \cup SeqRange(S.ct)
      \cup UNION {SeqRange(S.is[c].items) \cup SeqRange(S.it[c].items) : c \in Containers}

\* Identity of a freshly allocated DictEntry.  Object identities are opaque
\* to the program; the model numbers the objects of each list owner apart:
\* owner o (an instance whose own list receives the object, ClassOwner for a
\* list of the class) uses the ids o * IdStride + 1 .. o * IdStride + IdStride - 1,
\* and a new object takes the least id free for its owner.  An object of an
\* instance's own list is never referred to by a list of the class or of
\* another instance.
OwnerOf(S, c) ==
    IF (IF UsesSmallIn(S, c) THEN S.is[c].own ELSE S.it[c].own) THEN c ELSE ClassOwner
NewId(S, c) ==
    LET base == OwnerOf(S, c) * IdStride
    IN  CHOOSE n \in (base + 1)..(base + IdStride - 1) :
            /\ n \notin DOMAIN S.heap
            /\ \A m \in (base + 1)..(n - 1) : m \in DOMAIN S.heap

\* Objects no list refers to are garbage; DUMMY is a module global.  The
\* lists of the class are never emptied: _expand and clear rebind the
\* attributes of the instance only.
Collect(S) ==
    [S EXCEPT !.heap = [id \in Referenced(S) \cup {DUMMY} |-> S.heap[id]]]

----------------------------------------------------------------------------
(* The methods of Dictionary *)

\* __len__
Length(c) == used[c]

\* The test of line 72: _used > _fill * (2 / 3).  _fill is 8 times a power
\* of two, so _fill * (2 / 3) is never an integer and the float comparison
\* agrees with the exact one.
OverTwoThirds(u, f) == 3 * u > 2 * f

\* _expand that adds eight to _fill instead of doubling it.
expand_adds(S, c) ==
    LET moved == IF S.fill[c] = InitialFill
                 THEN LET appended == WriteHeap(S, c, heap_table_of(S, c) \o small_table_of(S, c))
                      IN  [appended EXCEPT !.is[c] = OwnList(<<>>)]
                 ELSE S
    IN  [moved EXCEPT !.fill[c] = @ + InitialFill]

\* _expand
expand(S, c) ==
    LET moved ==
            IF S.fill[c] = InitialFill
            THEN LET appended == WriteHeap(S, c, heap_table_of(S, c) \o small_table_of(S, c))
                 IN  [appended EXCEPT !.is[c] = OwnList(<<>>)]
            ELSE S
    IN  [moved EXCEPT !.fill[c] = @ * GrowthFactor]

\* _update_table_size with the threshold tested before the count is updated.
update_table_size_stale(S, c) ==
    LET counted == [S EXCEPT !.used[c] = @ + 1]
    IN  IF OverTwoThirds(S.used[c], S.fill[c])
        THEN expand(counted, c)
        ELSE counted

\* _update_table_size
update_table_size(S, c) ==
    LET counted == [S EXCEPT !.used[c] = @ + 1]
    IN  IF OverTwoThirds(counted.used[c], counted.fill[c])
        THEN expand(counted, c)
        ELSE counted

\* Which branch of __setitem__ a call takes.
SetBranch(S, c, key) ==
    IF FirstMatch(S, table_of(S, c), PyHash(key)) # 0 THEN "update"
    ELSE IF FirstDummy(table_of(S, c)) # 0 THEN "recycle"
    ELSE "append"

\* __setitem__
setitem(S, c, key, value) ==
    LET L == table_of(S, c)
        m == FirstMatch(S, L, PyHash(key))
        d == FirstDummy(L)
        n == NewId(S, c)
        alloc == [S EXCEPT !.heap = (n :> DictEntry(key, value)) @@ @]
    IN  IF m # 0
        THEN [S EXCEPT !.heap[L[m]].value = value]
        ELSE IF d # 0
        THEN update_table_size(WriteTable(alloc, c, [L EXCEPT ![d] = n]), c)
        ELSE update_table_size(WriteTable(alloc, c, Append(L, n)), c)

\* __delitem__ finds the key (otherwise it raises KeyError).
DelFinds(S, c, key) == FirstMatch(S, table_of(S, c), PyHash(key)) # 0

\* __delitem__
delitem(S, c, key) ==
    LET L == table_of(S, c)
        m == FirstMatch(S, L, PyHash(key))
    IN  IF m # 0
        THEN [WriteTable(S, c, [L EXCEPT ![m] = DUMMY]) EXCEPT !.used[c] = @ - 1]
        ELSE S

\* What a call returns or raises.
Returned(v) == [kind |-> "return", v |-> v]
Raised(e) == [kind |-> e, v |-> PyNone]

\* __getitem__ / get
getitem(S, c, key, default) ==
    LET L == table_of(S, c)
        m == FirstMatch(S, L, PyHash(key))
    IN  IF m # 0 THEN Returned(S.heap[L[m]].value)
        ELSE IF Truthy(default) THEN Returned(default)
        ELSE Raised("KeyError")

\* clear that forgets to reset _fill.
clear_keeps_fill(S, c) ==
    [S EXCEPT !.it[c] = OwnList(<<>>),
              !.is[c] = OwnList(<<>>),
              !.used[c] = InitialUsed]

\* clear
clear(S, c) ==
    [S EXCEPT !.it[c] = OwnList(<<>>),
              !.is[c] = OwnList(<<>>),
              !.fill[c] = InitialFill,
              !.used[c] = InitialUsed]

\* A text is a sequence of pieces: a single character, or the repr() of a
\* key or a value (one or more characters, never cut by __str__).
Char(x) == [kind |-> "char", of |-> x]
Repr(v) == [kind |-> "repr", of |-> v]
PyText(pieces) == [t |-> "text", i |-> 0, s |-> pieces]

\* f"{repr(entry.key)}: {repr(entry.value)}, "
Pair(e) == <<Repr(e.key), Char(":"), Char(" "), Repr(e.value), Char(","), Char(" ")>>

RECURSIVE Pairs(_, _)
Pairs(S, L) ==
    IF L = <<>> THEN <<>> ELSE Pair(S.heap[Head(L)]) \o Pairs(S, Tail(L))

\* output[:-2] of a text whose pieces are all single characters at its end
DropLastTwo(text) == SubSeq(text, 1, Len(text) - 2)

\* __str__
str(S, c) ==
    LET output == <<Char("{")>> \o Pairs(S, table_of(S, c))
    IN  DropLastTwo(output) \o <<Char("}")>>

----------------------------------------------------------------------------
(* Actions: one call of a public operation each *)

\* What is kept of the last call: the operation, the instance it was made
\* on, _used and _fill of that instance before the call, and what the call
\* returned or raised.
Call(op, c, out) ==
    [op |-> op, c |-> c, out |-> out,
     pre |-> IF c \in Containers THEN [used |-> used[c], fill |-> fill[c]]
             ELSE [used |-> InitialUsed, fill |-> InitialFill]]

Commit(S0) ==
    LET S == Collect(S0)
    IN  /\ heap' = S.heap
        /\ cls_small_table' = S.cs
        /\ cls_table' = S.ct
        /\ inst_small_table' = S.is
        /\ inst_table' = S.it
        /\ used' = S.used
        /\ fill' = S.fill

InitOf(n) ==
    /\ limit = n
    /\ calls = 0
    /\ heap = (DUMMY :> DummyEntry)
    /\ cls_small_table = <<>>
    /\ cls_table = <<>>
    /\ inst_small_table = [c \in Containers |-> NoAttr]
    /\ inst_table = [c \in Containers |-> NoAttr]
    /\ used = [c \in Containers |-> InitialUsed]
    /\ fill = [c \in Containers |-> InitialFill]
    /\ created = {}
    /\ ret = Call("init", 0, Returned(PyNone))

\* Dictionary(): the class defines no __init__, so nothing is assigned.
New(c) ==
    /\ c \notin created
    /\ c <= limit
    /\ \A b \in Containers : b < c => b \in created
    /\ created' = created \cup {c}
    /\ ret' = Call("new", c, Returned(PyNone))
    /\ UNCHANGED <<heap, cls_small_table, cls_table, inst_small_table,
                   inst_table, used, fill, limit>>

\* c[key] = value
SetItem(c, key, value) ==
    /\ c \in created
    /\ Commit(setitem(Cur, c, key, value))
    /\ ret' = Call("set", c, Returned(PyNone))
    /\ UNCHANGED <<created, limit>>

\* del c[key]
DelItem(c, key) ==
    /\ c \in created
    /\ Commit(delitem(Cur, c, key))
    /\ ret' = Call("del", c,
                   IF DelFinds(Cur, c, key) THEN Returned(PyNone) ELSE Raised("KeyError"))
    /\ UNCHANGED <<created, limit>>

\* c.get(key, default)  (c[key] is the call with default None)
GetItem(c, key, default) ==
    /\ c \in created
    /\ ret' = Call("get", c, getitem(Cur, c, key, default))
    /\ UNCHANGED <<heap, cls_small_table, cls_table, inst_small_table,
                   inst_table, used, fill, created, limit>>

\* c.__len__()
GetLen(c) ==
    /\ c \in created
    /\ ret' = Call("len", c, Returned(PyInt(Length(c))))
    /\ UNCHANGED <<heap, cls_small_table, cls_table, inst_small_table,
                   inst_table, used, fill, created, limit>>

\* c.clear()
Clear(c) ==
    /\ c \in created
    /\ Commit(clear(Cur, c))
    /\ ret' = Call("clear", c, Returned(PyNone))
    /\ UNCHANGED <<created, limit>>

\* str(c)
Str(c) ==
    /\ c \in created
    /\ ret' = Call("str", c, Returned(PyText(str(Cur, c))))
    /\ UNCHANGED <<heap, cls_small_table, cls_table, inst_small_table,
                   inst_table, used, fill, created, limit>>

\* The counters are unbounded in the program; a specification explores a
\* call only while they stay within its bounds.
InsertWithin(c, key, most) == SetBranch(Cur, c, key) # "update" => used[c] < most
DeleteWithin(c, key, debt) == DelFinds(Cur, c, key) => used[c] > -debt

\* A specification either leaves the call count alone or bounds it.
Uncounted == UNCHANGED calls
Counted == calls < MaxCalls /\ calls' = calls + 1

----------------------------------------------------------------------------
(* Renaming the integer keys of distinct hash is a symmetry of the program *)
(* (hashes are only compared for equality), and a key that no entry of any *)
(* list holds, the lists of the class included, occurs nowhere in the      *)
(* state.  All such keys give the same successor up to a renaming, so in a *)
(* specification with many keys a call that uses one of them uses the      *)
(* least; a key held by any entry of any list can be used at any time.     *)

MaxKeys == 11
GrowKeys == {PyInt(i) : i \in 1..MaxKeys}

HeldKeys == {heap[id].key : id \in DOMAIN heap \ {DUMMY}}
KeyInOrder(key) ==
    key \in HeldKeys \/ \A j \in 1..(key.i - 1) : PyInt(j) \in HeldKeys

----------------------------------------------------------------------------
(* Spec: one instance, every public operation, keys that include the key   *)
(* of DUMMY and two keys of equal hash.                                    *)

SpecCalls == 6
CountedSpec == calls < SpecCalls /\ calls' = calls + 1

Next ==
    \/ CountedSpec /\ New(1)
    \/ \E k \in Keys, v \in Values : CountedSpec /\ SetItem(1, k, v)
    \/ \E k \in Keys : CountedSpec /\ DeleteWithin(1, k, MaxDebt) /\ DelItem(1, k)
    \/ \E k \in Keys, d \in Defaults : CountedSpec /\ GetItem(1, k, d)
    \/ CountedSpec /\ GetLen(1)
    \/ CountedSpec /\ Str(1)
    \/ CountedSpec /\ Clear(1)

Init == InitOf(1)

Spec == Init /\ [][Next]_vars

----------------------------------------------------------------------------
(* SpecSolo: one instance, the mutating operations, enough keys of         *)
(* distinct hash to cross the two-thirds threshold of the small table,     *)
(* runs of at most MaxCalls calls.                                         *)

SoloKeys == {PyInt(1), PyInt(2), PyInt(3), PyInt(4), PyInt(5), PyInt(6)}
SoloValues == {PyStr("Tartar")}

NextSolo ==
    \/ Counted /\ New(1)
    \/ \E k \in SoloKeys, v \in SoloValues :
          Counted /\ KeyInOrder(k) /\ SetItem(1, k, v)
    \/ \E k \in SoloKeys : Counted /\ KeyInOrder(k) /\ DelItem(1, k)
    \/ Counted /\ Clear(1)

InitSolo == InitOf(1)

SpecSolo == InitSolo /\ [][NextSolo]_vars

----------------------------------------------------------------------------
(* SpecShared: several instances of the class that never call clear (so    *)
(* that they keep sharing the lists of the class), one key and two values. *)

SharedKeys == {PyInt(1)}

NextShared ==
    \/ \E c \in Containers : Uncounted /\ New(c)
    \/ \E c \in Containers, k \in SharedKeys, v \in Values :
          Uncounted /\ InsertWithin(c, k, MaxUsed) /\ SetItem(c, k, v)
    \/ \E c \in Containers, k \in SharedKeys :
          Uncounted /\ DeleteWithin(c, k, SharedDebt) /\ DelItem(c, k)
    \/ \E c \in Containers, k \in SharedKeys, d \in Defaults :
          Uncounted /\ GetItem(c, k, d)
    \/ \E c \in Containers : Uncounted /\ GetLen(c)

InitShared == InitOf(NumContainers)

SpecShared == InitShared /\ [][NextShared]_vars

----------------------------------------------------------------------------
(* SpecGrow and SpecPair *)

\* SpecGrow: one instance, the mutating operations, enough keys to double
\* _fill twice.
GrowCalls == 12
CountedGrow == calls < GrowCalls /\ calls' = calls + 1

NextGrow ==
    \/ CountedGrow /\ New(1)
    \/ \E k \in GrowKeys, v \in SoloValues :
          CountedGrow /\ KeyInOrder(k) /\ SetItem(1, k, v)
    \/ \E k \in GrowKeys : CountedGrow /\ KeyInOrder(k) /\ DelItem(1, k)
    \/ CountedGrow /\ Clear(1)

InitGrow == InitOf(1)

SpecGrow == InitGrow /\ [][NextGrow]_vars

\* SpecPair: two instances that never call clear, runs of at most PairCalls
\* calls.
PairCalls == 11
PairKeys == {PyInt(i) : i \in 1..(PairCalls - 2)}
CountedPair == calls < PairCalls /\ calls' = calls + 1

NextPair ==
    \/ \E c \in 1..2 : CountedPair /\ New(c)
    \/ \E c \in 1..2, k \in PairKeys, v \in SoloValues :
          CountedPair /\ KeyInOrder(k) /\ SetItem(c, k, v)
    \/ \E c \in 1..2, k \in PairKeys :
          CountedPair /\ KeyInOrder(k) /\ DelItem(c, k)

InitPair == InitOf(2)

SpecPair == InitPair /\ [][NextPair]_vars

----------------------------------------------------------------------------
(* Vocabulary of the claims *)

\* The slots of the active store of c that hold a live entry (not DUMMY).
LiveSlots(S, c) == {i \in 1..Len(table_of(S, c)) : table_of(S, c)[i] # DUMMY}

\* The keys of the live entries of the active store of c.
KeysPresent(S, c) == {S.heap[table_of(S, c)[i]].key : i \in LiveSlots(S, c)}

\* The entries a list refers to, slot by slot.
Contents(S, L) == [i \in 1..Len(L) |-> S.heap[L[i]]]

\* The two states of section 4.7, told apart as the `table` property does.
State(S, c) == IF UsesSmallIn(S, c) THEN "Inline" ELSE "Promoted"

\* The container as created: used 0, fill 8, both stores empty.
Empty(S, c) ==
    /\ S.used[c] = 0
    /\ S.fill[c] = 8
    /\ small_table_of(S, c) = <<>>
    /\ heap_table_of(S, c) = <<>>

AllKeys == Keys \cup SoloKeys \cup SharedKeys
AllValues == Values \cup SoloValues

\* Everything a caller can observe of container b, and its two stores.
View(S, b) ==
    [len |-> S.used[b],
     fill |-> S.fill[b],
     small |-> Contents(S, small_table_of(S, b)),
     promoted |-> Contents(S, heap_table_of(S, b)),
     gets |-> [k \in AllKeys |-> getitem(S, b, k, PyNone)]]

Mutator(op) == op \in {"set", "del", "clear"}

----------------------------------------------------------------------------
(* The claims *)

\* C1: after any sequence of set and delete calls, length is the number of
\* distinct keys present, which is the number of non-sentinel entries of the
\* active store.
C1_CountAccuracy ==
    \A c \in created :
        /\ Length(c) = Cardinality(KeysPresent(Cur, c))
        /\ Cardinality(KeysPresent(Cur, c)) = Cardinality(LiveSlots(Cur, c))

\* C2: set(c, k, v) immediately followed by get(c, k) returns v, whichever
\* branch the set took.
C2_RoundTrip ==
    [][ret'.op = "set" =>
          \A k \in AllKeys, v \in AllValues :
              SetItem(ret'.c, k, v) =>
                  getitem(Cur', ret'.c, k, PyNone) = Returned(v)]_vars

\* C3: containers share no state: a newly created container is empty, and no
\* set, delete or clear on one container changes what another one holds or
\* returns.
C3_NoSharedState ==
    [][\A c \in Containers :
          /\ New(c) => Empty(Cur', c)
          /\ (Mutator(ret'.op) /\ ret'.c = c) =>
                \A b \in created \ {c} : View(Cur', b) = View(Cur, b)]_vars

\* C4: in every reachable state, for every key k and value v, after
\* set(c, k, v) and delete(c, k) the delete has succeeded, get(c, k) raises
\* KeyError and get(c, k, d) returns a (truthy) default d.
C4_DeleteThenMiss ==
    \A c \in created, k \in Keys, v \in Values :
        LET S1 == setitem(Cur, c, k, v)
            S2 == delitem(S1, c, k)
        IN  /\ DelFinds(S1, c, k)
            /\ getitem(S2, c, k, PyNone) = Raised("KeyError")
            /\ \A d \in Defaults : Truthy(d) => getitem(S2, c, k, d) = Returned(d)

\* C5: an insertion of a new key doubles fill exactly when the incremented
\* used exceeds two thirds of the fill held before; from fill 8 the container
\* stays Inline up to 5 live keys and the insertion that makes the count 6
\* moves it to Promoted with fill 16; updates and deletes never grow.
C5_GrowthThreshold ==
    [][/\ ret'.op = "set" =>
            \A k \in AllKeys, v \in AllValues :
                SetItem(ret'.c, k, v) =>
                    LET c == ret'.c
                    IN  IF k \in KeysPresent(Cur, c)
                        THEN fill'[c] = fill[c]
                        ELSE /\ fill'[c] = IF 3 * used'[c] > 2 * fill[c]
                                           THEN 2 * fill[c] ELSE fill[c]
                             /\ (fill[c] = 8 /\ used'[c] <= 5) =>
                                    (fill'[c] = 8 /\ State(Cur', c) = "Inline")
                             /\ (fill[c] = 8 /\ used'[c] = 6) =>
                                    (fill'[c] = 16 /\ State(Cur', c) = "Promoted")
       /\ ret'.op = "del" => fill'[ret'.c] = fill[ret'.c]]_vars

\* C5 witness: the sixth live key has just been inserted into a container
\* that held five at fill 8, and the container is Promoted with fill 16.
C5_Witness ==
    /\ ret.op = "set"
    /\ ret.pre = [used |-> 5, fill |-> 8]
    /\ used[ret.c] = 6
    /\ fill[ret.c] = 16
    /\ Cardinality(KeysPresent(Cur, ret.c)) = 6

\* C6: clear leaves the container as it was created: length 0, fill 8, both
\* stores empty, state Inline, every lookup a miss.
C6_ClearResets ==
    ret.op = "clear" =>
        /\ Length(ret.c) = 0
        /\ Empty(Cur, ret.c)
        /\ State(Cur, ret.c) = "Inline"
        /\ table_of(Cur, ret.c) = <<>>
        /\ \A k \in AllKeys : getitem(Cur, ret.c, k, PyNone) = Raised("KeyError")

\* C6 witness: clear has just been called on a Promoted container that held
\* five live keys and the tombstone of a sixth.
C6_Witness ==
    /\ ret.op = "clear"
    /\ ret.pre = [used |-> 5, fill |-> 16]
    /\ Empty(Cur, ret.c)

\* C7: in every reachable state, deleting a present key k1 and then inserting
\* a key k2 that is not present and differs from k1 leaves k2 retrievable,
\* length equal to the number of live entries, and k1 absent.
C7_SlotRecycling ==
    \A c \in created, k1 \in Keys, k2 \in Keys, v \in Values :
        LET S1 == delitem(Cur, c, k1)
            S2 == setitem(S1, c, k2, v)
        IN  (k2 # k1 /\ DelFinds(Cur, c, k1) /\ k2 \notin KeysPresent(S1, c)) =>
                /\ getitem(S2, c, k2, PyNone) = Returned(v)
                /\ S2.used[c] = Cardinality(LiveSlots(S2, c))
                /\ getitem(S2, c, k1, PyNone) = Raised("KeyError")

\* C8: set on a key that is present overwrites the value of that key's entry
\* in place: used, fill, the slots of the active store and their order and
\* every other live entry are unchanged, and get then returns the new value.
C8_UpdateInPlace ==
    [][ret'.op = "set" =>
          \A k \in AllKeys, v \in AllValues :
              (SetItem(ret'.c, k, v) /\ k \in KeysPresent(Cur, ret'.c)) =>
                  LET c == ret'.c
                      L == table_of(Cur, c)
                  IN  /\ used'[c] = used[c]
                      /\ fill'[c] = fill[c]
                      /\ table_of(Cur', c) = L
                      /\ \A i \in LiveSlots(Cur, c) :
                            heap'[L[i]] = IF heap[L[i]].key = k
                                          THEN [heap[L[i]] EXCEPT !.value = v]
                                          ELSE heap[L[i]]
                      /\ getitem(Cur', c, k, PyNone) = Returned(v)]_vars

\* C9: a failing operation mutates nothing: a delete of a key that is not
\* present and a lookup of a key that is not present without a usable default
\* raise KeyError and leave used, fill and both stores as they were.
C9_FailureMutatesNothing ==
    [][/\ ret'.op = "del" =>
            \A k \in AllKeys :
                (DelItem(ret'.c, k) /\ k \notin KeysPresent(Cur, ret'.c)) =>
                    /\ ret'.out = Raised("KeyError")
                    /\ Cur' = Cur
       /\ ret'.op = "get" =>
            \A k \in AllKeys, d \in Defaults :
                (GetItem(ret'.c, k, d) /\ ~Truthy(d)
                   /\ k \notin KeysPresent(Cur, ret'.c)) =>
                      /\ ret'.out = Raised("KeyError")
                      /\ Cur' = Cur]_vars

\* C10: a lookup of a key that is not present returns the supplied default
\* exactly when it is truthy and raises KeyError otherwise; a lookup of a key
\* that is present returns the value stored for it.
C10_DefaultOnMiss ==
    [][ret'.op = "get" =>
          \A k \in AllKeys, d \in Defaults :
              GetItem(ret'.c, k, d) =>
                  LET c == ret'.c
                      L == table_of(Cur, c)
                  IN  IF k \notin KeysPresent(Cur, c)
                      THEN /\ (ret'.out = Returned(d)) <=> Truthy(d)
                           /\ ~Truthy(d) => ret'.out = Raised("KeyError")
                      ELSE \A i \in LiveSlots(Cur, c) :
                              heap[L[i]].key = k =>
                                  ret'.out = Returned(heap[L[i]].value)]_vars

\* C11: every container is always in exactly one of two states, Inline
\* (fill 8, promoted store empty) or Promoted (fill above 8, inline store
\* empty), and only clear takes a Promoted container back to Inline.
InlineState(S, c) == S.fill[c] = 8 /\ heap_table_of(S, c) = <<>>
PromotedState(S, c) == S.fill[c] > 8 /\ small_table_of(S, c) = <<>>
C11_TwoStates ==
    [][\A c \in created' :
          /\ InlineState(Cur', c) \/ PromotedState(Cur', c)
          /\ (c \in created /\ fill[c] > 8 /\ fill'[c] <= 8) =>
                (ret'.op = "clear" /\ ret'.c = c)]_vars

\* C12: fill starts at 8 and is always 8 times a power of two; a step of
\* set, delete or get leaves it unchanged or exactly doubles it, and only
\* clear lowers it, to 8.
RECURSIVE EightTimesPowerOfTwo(_)
EightTimesPowerOfTwo(n) ==
    n = 8 \/ (n > 8 /\ n % 2 = 0 /\ EightTimesPowerOfTwo(n \div 2))
C12_FillDoubles ==
    [][\A c \in created' :
          /\ EightTimesPowerOfTwo(fill'[c])
          /\ c \notin created => fill'[c] = 8
          /\ c \in created =>
                IF ret'.op = "clear" /\ ret'.c = c
                THEN fill'[c] = 8
                ELSE fill'[c] = fill[c] \/ fill'[c] = 2 * fill[c]]_vars

\* C12 witness: a set has just doubled fill for the second time.
C12_Witness ==
    /\ ret.op = "set"
    /\ ret.pre.fill = 16
    /\ fill[ret.c] = 32

\* C13: the container refines a key-to-value map.  With keys of pairwise
\* distinct hashes, set(k, v) puts k -> v into the map, delete(k) removes k,
\* clear empties it, and after each of them get(k) returns the value the map
\* holds for k and raises KeyError for a key the map does not hold.
MapKeys == GrowKeys \cup {PyStr("Dummy123")}
MapOf(S, c) ==
    [k \in KeysPresent(S, c) |->
        LET L == table_of(S, c)
        IN  S.heap[L[CHOOSE i \in LiveSlots(S, c) : S.heap[L[i]].key = k]].value]
Put(m, k, v) == [x \in DOMAIN m \cup {k} |-> IF x = k THEN v ELSE m[x]]
Remove(m, k) == [x \in DOMAIN m \ {k} |-> m[x]]
LookupsAgree(S, c) ==
    \A k \in MapKeys :
        getitem(S, c, k, PyNone) = IF k \in DOMAIN MapOf(S, c)
                                   THEN Returned(MapOf(S, c)[k])
                                   ELSE Raised("KeyError")
C13_RefinesMap ==
    [][/\ ret'.op = "set" =>
            \A k \in MapKeys, v \in AllValues :
                SetItem(ret'.c, k, v) =>
                    /\ MapOf(Cur', ret'.c) = Put(MapOf(Cur, ret'.c), k, v)
                    /\ LookupsAgree(Cur', ret'.c)
       /\ ret'.op = "del" =>
            \A k \in MapKeys :
                DelItem(ret'.c, k) =>
                    /\ MapOf(Cur', ret'.c) = Remove(MapOf(Cur, ret'.c), k)
                    /\ LookupsAgree(Cur', ret'.c)
       /\ ret'.op = "clear" =>
            /\ DOMAIN MapOf(Cur', ret'.c) = {}
            /\ LookupsAgree(Cur', ret'.c)]_vars

\* C14: no call changes the sentinel's hash, key or value, and a slot that
\* holds the sentinel is changed only by a set (recycling) or a clear on that
\* container.
C14_SentinelImmutable ==
    [][/\ heap'[DUMMY] = DummyEntry
       /\ \A c \in created :
             LET L == table_of(Cur, c)
                 M == table_of(Cur', c)
             IN  \A i \in 1..Len(L) :
                    (L[i] = DUMMY /\ (i > Len(M) \/ M[i] # DUMMY)) =>
                        (ret'.op \in {"set", "clear"} /\ ret'.c = c)]_vars

\* C15: growth never loses or reorders slots.  The first growth leaves in
\* the promoted store exactly the slots of the former inline store (the
\* inserted entry included) in their order and empties the inline store; a
\* later growth doubles fill and leaves the slots of the promoted store and
\* their order untouched.
AfterInsert(L, M, k, v) ==
    LET d == FirstDummy(L)
        at == IF d # 0 THEN d ELSE Len(L) + 1
    IN  /\ Len(M) = IF d # 0 THEN Len(L) ELSE Len(L) + 1
        /\ \A i \in 1..Len(L) : i # at => M[i] = L[i]
        /\ M[at] # DUMMY
        /\ heap'[M[at]] = DictEntry(k, v)
C15_GrowthKeepsSlots ==
    [][ret'.op = "set" =>
          \A k \in AllKeys, v \in AllValues :
              LET c == ret'.c
              IN  (SetItem(c, k, v) /\ fill'[c] # fill[c]) =>
                      /\ fill'[c] = 2 * fill[c]
                      /\ small_table_of(Cur', c) = <<>>
                      /\ AfterInsert(table_of(Cur, c), heap_table_of(Cur', c), k, v)]_vars

\* C16: delete leaves the slot count unchanged, turns the matched slot into
\* the sentinel and touches no other slot; inserting a key that is not
\* present overwrites the first sentinel slot if there is one and appends
\* exactly one slot otherwise; the slot count shrinks only by clear.
C16_SlotCount ==
    [][/\ ret'.op = "set" =>
            \A k \in AllKeys, v \in AllValues :
                LET c == ret'.c
                IN  (SetItem(c, k, v) /\ k \notin KeysPresent(Cur, c)) =>
                        AfterInsert(table_of(Cur, c), table_of(Cur', c), k, v)
       /\ ret'.op = "del" =>
            \A k \in AllKeys :
                LET c == ret'.c
                    L == table_of(Cur, c)
                    M == table_of(Cur', c)
                IN  (DelItem(c, k) /\ k \in KeysPresent(Cur, c)) =>
                        /\ Len(M) = Len(L)
                        /\ \A i \in 1..Len(L) :
                              M[i] = IF L[i] # DUMMY /\ heap[L[i]].key = k
                                     THEN DUMMY ELSE L[i]
       /\ \A c \in created :
             Len(table_of(Cur', c)) < Len(table_of(Cur, c)) =>
                 (ret'.op = "clear" /\ ret'.c = c)]_vars

\* C17: in every reachable state the active store of every container holds
\* at most one live entry per hash value.
C17_OneEntryPerHash ==
    \A c \in created :
        \A i, j \in LiveSlots(Cur, c) :
            i # j => heap[table_of(Cur, c)[i]].hash # heap[table_of(Cur, c)[j]].hash

\* C18: after every operation 0 <= used and 3 * used <= 2 * fill, for every
\* container.
C18_LoadFactorBound ==
    \A c \in created : 0 <= used[c] /\ 3 * used[c] <= 2 * fill[c]

\* C19: in every reachable state the slot count of the active store is at
\* most fill, and the inline store holds at most 8 slots.
C19_SlotsWithinFill ==
    \A c \in created :
        /\ Len(table_of(Cur, c)) <= fill[c]
        /\ Len(small_table_of(Cur, c)) <= 8

\* C20: in every reachable state, the empty container included, str(c) is a
\* text that begins with '{', ends with '}' and holds between the braces one
\* `key: value` pair per slot of the active store in scan order, the pairs
\* separated by ', '.
RECURSIVE Joined(_, _)
Joined(S, L) ==
    IF L = <<>> THEN <<>>
    ELSE LET e == S.heap[Head(L)]
             pair == <<Repr(e.key), Char(":"), Char(" "), Repr(e.value)>>
         IN  IF Tail(L) = <<>> THEN pair
             ELSE pair \o <<Char(","), Char(" ")>> \o Joined(S, Tail(L))
C20_DisplayString ==
    \A c \in created :
        str(Cur, c) = <<Char("{")>> \o Joined(Cur, table_of(Cur, c)) \o <<Char("}")>>

====
